---- MODULE Spec2Model ----
(***************************************************************************)
(* Model of graphviz-overlay: the model-to-graph compiler of graph.py      *)
(* (style resolution, graph contexts, the model walker) and the path       *)
(* selection pass of overlays/graphviz.py.                                 *)
(*                                                                         *)
(* Representation.  A Python dict whose order is irrelevant (attribute     *)
(* mappings, stylesheets) is a TLA+ function on the set of its keys; the   *)
(* empty dict, the empty list and None are all the empty function <<>>     *)
(* (all three are falsy and the code only ever tests them with `or`).      *)
(* A dict whose order matters (nodes, subgraphs, ranks) is a sequence of   *)
(* entries with distinct keys.  Strings that are only compared are TLA+    *)
(* strings; strings that are cut or joined (ids, names, paths) are         *)
(* sequences of one-character strings.                                     *)
(***************************************************************************)
EXTENDS Integers, Sequences, FiniteSets, TLC

VARIABLES
    pc,             \* position of the running call
    styles,         \* GraphContext.styles of the context under test
    type,           \* _build_attributes: the `type` argument
    attributes,     \* _build_attributes: the `attributes` argument
    classes,        \* _build_attributes: the `classes` argument
    result,         \* _build_attributes: the returned mapping
    paths,          \* paths_in_paths: the candidate paths
    selected_paths, \* paths_in_paths: the configured list
    matched,        \* paths_in_paths / in_a_selected_path: the returned truth values
    overlay,        \* GraphOverlay: selected/highlighted/shaded paths, remove_deselected
    model,          \* the model dict handed to preprocess_model (mutable)
    original,       \* the model as it was loaded (history variable)
    processed,      \* the models preprocess_model has returned, oldest first
    root,           \* the model handed to walk_model
    stack           \* walk_model's call stack of (context, model, loop positions)

vars == <<pc, styles, type, attributes, classes, result, paths, selected_paths,
          matched, overlay, model, original, processed, root, stack>>

resolveVars == <<styles, type, attributes, classes, result>>
matchVars   == <<paths, selected_paths, matched>>
overlayVars == <<overlay, model, original, processed>>
walkVars    == <<root, stack>>

-----------------------------------------------------------------------------
(* Python built-ins *)

EmptyMap == <<>>

\* dict.get(key, default)
Get(d, key, default) == IF key \in DOMAIN d THEN d[key] ELSE default

\* dict.update(other): other's entries win
Update(d, other) ==
    [k \in (DOMAIN d) \cup (DOMAIN other) |->
        IF k \in DOMAIN other THEN other[k] ELSE d[k]]

\* `x or default`: the default replaces a falsy x (None, {}, [])
OrDefault(x, default) == IF x = <<>> THEN default ELSE x

\* str.startswith
StartsWith(s, p) == Len(p) <= Len(s) /\ SubSeq(s, 1, Len(p)) = p

\* every sequence over S of length at most n
SeqsUpTo(S, n) == UNION {[1..k -> S] : k \in 0..n}

-----------------------------------------------------------------------------
(* graph.py: the attribute whitelist *)

valid_attrs == {
    "_background", "area", "arrowhead", "arrowsize", "arrowtail", "bb",
    "bgcolor", "center", "charset", "class", "clusterrank", "color",
    "colorscheme", "comment", "compound", "concentrate", "constraint",
    "Damping", "decorate", "defaultdist", "dim", "dimen", "dir",
    "diredgeconstraints", "distortion", "dpi", "edgehref", "edgetarget",
    "edgetooltip", "edgeURL", "epsilon", "esep", "fillcolor", "fixedsize",
    "fontcolor", "fontname", "fontnames", "fontpath", "fontsize",
    "forcelabels", "gradientangle", "group", "head_lp", "headclip",
    "headhref", "headlabel", "headport", "headtarget", "headtooltip",
    "headURL", "height", "href", "id", "image", "imagepath", "imagepos",
    "imagescale", "inputscale", "K", "label", "label_scheme", "labelangle",
    "labeldistance", "labelfloat", "labelfontcolor", "labelfontname",
    "labelfontsize", "labelhref", "labeljust", "labelloc", "labeltarget",
    "labeltooltip", "labelURL", "landscape", "layer", "layerlistsep",
    "layers", "layerselect", "layersep", "layout", "len", "levels",
    "levelsgap", "lhead", "lheight", "lp", "ltail", "lwidth", "margin",
    "maxiter", "mclimit", "mindist", "minlen", "mode", "model", "mosek",
    "newrank", "nodesep", "nojustify", "normalize", "notranslate", "nslimit",
    "nslimit1", "ordering", "orientation", "outputorder", "overlap",
    "overlap_scaling", "overlap_shrink", "pack", "packmode", "pad", "page",
    "pagedir", "pencolor", "penwidth", "peripheries", "pin", "pos",
    "quadtree", "quantum", "rankdir", "ranksep", "ratio", "rects", "regular",
    "remincross", "repulsiveforce", "resolution", "root", "rotate",
    "rotation", "samehead", "sametail", "samplepoints", "scale",
    "searchsize", "sep", "shape", "shapefile", "showboxes", "sides", "size",
    "skew", "smoothing", "sortv", "splines", "start", "style", "stylesheet",
    "tail_lp", "tailclip", "tailhref", "taillabel", "tailport", "tailtarget",
    "tailtooltip", "tailURL", "target", "tooltip", "truecolor", "URL",
    "vertices", "viewport", "voro_margin", "weight", "width", "xdotversion",
    "xlabel", "xlp", "z"
}

-----------------------------------------------------------------------------
(* graph.py: GraphContext, the style resolver *)

Kinds == {"graph", "node", "edge"}

\* GraphContext.base_styles
base_styles == [graph |-> EmptyMap, node |-> EmptyMap, edge |-> EmptyMap]

\* GraphContext.__init__: self.styles = base_styles.copy(); self.styles.update(styles or {})
ContextStyles(sheet) == Update(base_styles, OrDefault(sheet, EmptyMap))

\* for c in classes + attributes.get('classes', []): attrs.update(self.styles.get(c, {}))
RECURSIVE MergeClasses(_, _, _)
MergeClasses(sheet, cl, attrs) ==
    IF cl = <<>> THEN attrs
    ELSE MergeClasses(sheet, Tail(cl),
                      Update(attrs, Get(sheet, Head(cl), EmptyMap)))

\* A resolver that forgets the whitelist (mutant of build_attributes).
build_attributes_unfiltered(sheet, type_, attributes_, classes_) ==
    LET cls     == OrDefault(classes_, <<>>)
        given   == OrDefault(attributes_, EmptyMap)
        merged  == MergeClasses(sheet, cls \o Get(given, "classes", <<>>), EmptyMap)
    IN IF given # <<>> THEN Update(merged, given) ELSE merged

\* GraphContext._build_attributes(type, attributes, classes); `type` is not read
build_attributes(sheet, type_, attributes_, classes_) ==
    LET cls     == OrDefault(classes_, <<>>)
        given   == OrDefault(attributes_, EmptyMap)
        merged  == MergeClasses(sheet, cls \o Get(given, "classes", <<>>), EmptyMap)
        attrs   == IF given # <<>> THEN Update(merged, given) ELSE merged
    IN [attr \in {a \in DOMAIN attrs : a \in valid_attrs} |-> attrs[attr]]

-----------------------------------------------------------------------------
(* The style resolver on its own: inputs of _build_attributes *)

MaxClasses == 1

ClassNames == {"c1", "c2", "zz"}    \* "zz" is styled by no stylesheet

BaseMaps == {EmptyMap, [color |-> "1"]}

ClassSheets ==
    { EmptyMap,
      [c1 |-> [color |-> "2", shape |-> "2"]],
      [c1 |-> [color |-> "2", shape |-> "2"],
       c2 |-> [shape |-> "4", rank |-> "same", nonsense |-> "4"]] }

\* the stylesheets a context can be constructed with
Stylesheets ==
    {EmptyMap} \cup
    { Update(b, c) : b \in [Kinds -> BaseMaps], c \in ClassSheets }

DirectMaps == { EmptyMap, [shape |-> "3"], [color |-> "3", shape |-> "3"] }

\* the keys the model format uses for itself
BookkeepingKeys ==
    {"classes", "paths", "visible", "from", "to", "nodes", "edges", "subgraphs"}

BookkeepingMaps ==
    { EmptyMap,
      [rank |-> "r1", paths |-> <<>>, visible |-> TRUE],
      [from |-> <<"a">>, to |-> <<"b">>, paths |-> <<>>, visible |-> FALSE],
      [nodes |-> <<>>, edges |-> <<>>, subgraphs |-> <<>>, visible |-> TRUE] }

ElementClasses == { EmptyMap, [classes |-> <<"c1">>], [classes |-> <<"c2", "c1">>] }

ElementMaps ==
    { Update(Update(d, b), c) :
        d \in DirectMaps, b \in BookkeepingMaps, c \in ElementClasses }

Idle == <<>>

InitResolve ==
    /\ pc = "call"
    /\ styles \in { ContextStyles(s) : s \in Stylesheets }
    /\ type \in Kinds
    /\ attributes \in ElementMaps
    /\ classes \in SeqsUpTo(ClassNames, MaxClasses)
    /\ result = Idle
    /\ paths = Idle /\ selected_paths = Idle /\ matched = Idle
    /\ overlay = Idle /\ model = Idle /\ original = Idle /\ processed = Idle
    /\ root = Idle /\ stack = Idle

BuildAttributes ==
    /\ pc = "call"
    /\ result' = build_attributes(styles, type, attributes, classes)
    /\ pc' = "return"
    /\ UNCHANGED <<styles, type, attributes, classes>>
    /\ UNCHANGED <<matchVars, overlayVars, walkVars>>

NextResolve == BuildAttributes

SpecResolve == InitResolve /\ [][NextResolve]_vars

\* C1: whatever the kind, stylesheet, class list and element mapping, the
\* mapping _build_attributes returns has only whitelisted keys; it never has
\* `rank` or one of the bookkeeping keys.
ResolvedKeysWhitelisted ==
    pc = "return" =>
        /\ DOMAIN result \subseteq valid_attrs
        /\ "rank" \notin DOMAIN result
        /\ DOMAIN result \cap BookkeepingKeys = {}

ResolvedKeysWhitelistedWitness ==
    /\ pc = "return"
    /\ "rank" \in DOMAIN attributes
    /\ "visible" \in DOMAIN attributes
    /\ "c2" \in {classes[i] : i \in DOMAIN classes}
    /\ "nonsense" \in DOMAIN Get(styles, "c2", EmptyMap)
    /\ DOMAIN result = {"color", "shape"}

\* the sources of a resolution in the order the specification gives them:
\* base style of the kind, caller's classes, element's classes, direct attributes
ResolutionSources(sheet, type_, attributes_, classes_) ==
    LET cl == classes_ \o Get(attributes_, "classes", <<>>)
    IN  <<Get(sheet, type_, EmptyMap)>>
        \o [i \in 1..Len(cl) |-> Get(sheet, cl[i], EmptyMap)]
        \o <<attributes_>>

\* the positions of the sources that define key k
Defining(sources, k) == {i \in 1..Len(sources) : k \in DOMAIN sources[i]}

Last(S) == CHOOSE i \in S : \A j \in S : j <= i

\* C2: every whitelisted key resolves to the value of the last source, in the
\* order base style, classes, direct attributes, that defines it.
ResolvedFromLastSource ==
    pc = "return" =>
        LET sources == ResolutionSources(styles, type, attributes, classes)
        IN \A k \in valid_attrs :
              IF Defining(sources, k) = {}
              THEN k \notin DOMAIN result
              ELSE /\ k \in DOMAIN result
                   /\ result[k] = sources[Last(Defining(sources, k))][k]

-----------------------------------------------------------------------------
(* overlays/graphviz.py: path matching *)

Caret == "^"

\* the empty selector: ''.split(',') is ['']
EmptySelector == << <<>> >>

\* any(path.startswith(p) for p in prefixes)
StartsWithAny(path, prefixes) ==
    \E i \in DOMAIN prefixes : StartsWith(path, prefixes[i])

\* [p[1:] for p in selected_paths if p.startswith('^')]
InvertedPaths(selected) ==
    LET keep(p) == StartsWith(p, <<Caret>>)
        F[i \in 0..Len(selected)] ==
            IF i = 0 THEN <<>>
            ELSE IF keep(selected[i])
                 THEN Append(F[i-1], SubSeq(selected[i], 2, Len(selected[i])))
                 ELSE F[i-1]
    IN F[Len(selected)]

\* the loop of paths_in_paths from candidate i on; the truth value returned
RECURSIVE PathsLoop(_, _, _, _, _)
PathsLoop(candidates, selected, inverted, i, in_inverted_path) ==
    IF i > Len(candidates)
    THEN inverted # <<>> /\ ~in_inverted_path
    ELSE IF StartsWithAny(candidates[i], selected)
         THEN TRUE
         ELSE PathsLoop(candidates, selected, inverted, i + 1,
                        in_inverted_path \/ StartsWithAny(candidates[i], inverted))

\* GraphOverlay.paths_in_paths(paths, selected_paths), as a truth value
paths_in_paths(candidates, selected) ==
    IF selected = EmptySelector THEN FALSE
    ELSE PathsLoop(candidates, selected, InvertedPaths(selected), 1, FALSE)

\* GraphOverlay.in_a_selected_path(paths), self.selected_paths given
in_a_selected_path(selected, candidates) ==
    IF selected = EmptySelector THEN TRUE
    ELSE paths_in_paths(candidates, selected)

\* GraphOverlay.is_highlighted / is_shaded
is_highlighted(o, candidates) == paths_in_paths(candidates, o.highlighted_paths)
is_shaded(o, candidates) == paths_in_paths(candidates, o.shaded_paths)

-----------------------------------------------------------------------------
(* The matcher on its own: inputs of paths_in_paths *)

MaxPaths == 2
MaxSelectors == 2

CandidatePaths ==
    { <<"x">>, <<"y">>, <<"x", ".", "y">>, <<"a", ".", "b", ".", "c">>,
      <<"a", ".", "c">>, <<"^", "x">> }

SelectorEntries ==
    { <<>>, <<"x">>, <<"^", "x">>, <<"a", ".", "b">>, <<"^", "a">> }

\* select.split(',') is never the empty list
SelectorLists == SeqsUpTo(SelectorEntries, MaxSelectors) \ {<<>>}

InitMatch ==
    /\ pc = "call"
    /\ paths \in SeqsUpTo(CandidatePaths, MaxPaths)
    /\ selected_paths \in SelectorLists
    /\ matched = EmptyMap
    /\ styles = Idle /\ type = Idle /\ attributes = Idle /\ classes = Idle
    /\ result = Idle
    /\ overlay = Idle /\ model = Idle /\ original = Idle /\ processed = Idle
    /\ root = Idle /\ stack = Idle

PathsInPaths ==
    /\ pc = "call"
    /\ "paths_in_paths" \notin DOMAIN matched
    /\ matched' = Update(matched,
                         [paths_in_paths |-> paths_in_paths(paths, selected_paths)])
    /\ UNCHANGED <<pc, paths, selected_paths>>
    /\ UNCHANGED <<resolveVars, overlayVars, walkVars>>

InASelectedPath ==
    /\ pc = "call"
    /\ "in_a_selected_path" \notin DOMAIN matched
    /\ matched' = Update(matched,
                         [in_a_selected_path |-> in_a_selected_path(selected_paths, paths)])
    /\ UNCHANGED <<pc, paths, selected_paths>>
    /\ UNCHANGED <<resolveVars, overlayVars, walkVars>>

NextMatch == PathsInPaths \/ InASelectedPath

SpecMatch == InitMatch /\ [][NextMatch]_vars

\* the matching rule as the specification words it
PlainPrefixes(selected) ==
    {selected[i] : i \in {j \in DOMAIN selected : ~StartsWith(selected[j], <<Caret>>)}}

NegatedPrefixes(selected) ==
    {SubSeq(selected[i], 2, Len(selected[i])) :
        i \in {j \in DOMAIN selected : StartsWith(selected[j], <<Caret>>)}}

ReferenceMatch(candidates, selected) ==
    \/ \E i \in DOMAIN candidates :
          \E p \in PlainPrefixes(selected) : StartsWith(candidates[i], p)
    \/ /\ NegatedPrefixes(selected) # {}
       /\ \A i \in DOMAIN candidates :
             \A p \in NegatedPrefixes(selected) : ~StartsWith(candidates[i], p)

\* C5: for every configured list but [''] paths_in_paths equals the rule
\* "some candidate starts with a plain prefix, or there are negated prefixes
\* and no candidate starts with one"; for [''] it matches nothing while
\* in_a_selected_path matches everything.
MatchesReferenceRule ==
    /\ "paths_in_paths" \in DOMAIN matched =>
          matched.paths_in_paths =
              IF selected_paths = EmptySelector THEN FALSE
              ELSE ReferenceMatch(paths, selected_paths)
    /\ ("in_a_selected_path" \in DOMAIN matched /\ selected_paths = EmptySelector) =>
          matched.in_a_selected_path = TRUE

\* the same rule for candidate paths none of which begins with `^`
MatchesReferenceRuleNoCaret ==
    (\A i \in DOMAIN paths : ~StartsWith(paths[i], <<Caret>>)) => MatchesReferenceRule

-----------------------------------------------------------------------------
(* Ordered dicts: sequences of [key, value] entries with distinct keys *)

Keys(d) == {d[i].key : i \in DOMAIN d}

\* d[key] = value: a key already present keeps its place
DictSet(d, key, value) ==
    IF key \in Keys(d)
    THEN [i \in DOMAIN d |-> IF d[i].key = key THEN [key |-> key, value |-> value]
                                               ELSE d[i]]
    ELSE Append(d, [key |-> key, value |-> value])

\* d.update(other)
RECURSIVE DictUpdate(_, _)
DictUpdate(d, other) ==
    IF other = <<>> THEN d
    ELSE DictUpdate(DictSet(d, Head(other).key, Head(other).value), Tail(other))

\* d.get(key) of a key that is present
Lookup(d, key) == d[CHOOSE i \in DOMAIN d : d[i].key = key].value

-----------------------------------------------------------------------------
(* overlays/graphviz.py: the overlay pass.  An operation that writes into   *)
(* the dicts it is given returns [out |-> what it returns, inp |-> its      *)
(* argument as the call leaves it].                                         *)

ClusterMarker == <<"c", "l", "u", "s", "t", "e", "r", "_">>
ClusterMarkerLen == 8

\* GraphOverlay.subgraph_path
subgraph_path(subgraph_name, current_path) ==
    IF current_path # <<>> THEN current_path \o <<".">> \o subgraph_name
    ELSE subgraph_name

\* An element pass that marks everything hidden (mutant of preprocess_element).
preprocess_element_hidden(o, elem, elem_paths) ==
    Update(elem, [visible |-> FALSE])

\* GraphOverlay.preprocess_element(elem, paths): elem as the call leaves it
preprocess_element(o, elem, elem_paths) ==
    LET e1 == Update(elem, [visible |-> in_a_selected_path(o.selected_paths, elem_paths)])
        e2 == IF is_highlighted(o, elem_paths)
              THEN Update(e1, [classes |-> Get(e1, "classes", <<>>) \o <<"highlighted">>])
              ELSE e1
        e3 == IF is_shaded(o, elem_paths)
              THEN Update(e2, [classes |-> Get(e2, "classes", <<>>) \o <<"shaded">>])
              ELSE e2
    IN e3

\* the loop of preprocess_nodes from entry i on
RECURSIVE NodesLoop(_, _, _, _, _)
NodesLoop(o, nodes, base_paths, i, selected_nodes) ==
    IF i > Len(nodes) THEN [out |-> selected_nodes, inp |-> nodes]
    ELSE LET node       == nodes[i].value
             node_paths == base_paths \o Get(node, "paths", <<>>)
         IN IF ~in_a_selected_path(o.selected_paths, node_paths) /\ o.remove_deselected
            THEN NodesLoop(o, nodes, base_paths, i + 1, selected_nodes)
            ELSE LET e == preprocess_element(o, node, node_paths)
                 IN NodesLoop(o, [nodes EXCEPT ![i].value = e], base_paths, i + 1,
                              DictSet(selected_nodes, nodes[i].key, e))

\* GraphOverlay.preprocess_nodes(nodes, paths)
preprocess_nodes(o, nodes, base_paths) == NodesLoop(o, nodes, base_paths, 1, <<>>)

\* the loop of preprocess_edges from edge i on
RECURSIVE EdgesLoop(_, _, _, _, _)
EdgesLoop(o, edges, base_paths, i, selected_edges) ==
    IF i > Len(edges) THEN [out |-> selected_edges, inp |-> edges]
    ELSE LET edge       == edges[i]
             edge_paths == base_paths \o Get(edge, "paths", <<>>)
         IN IF ~in_a_selected_path(o.selected_paths, edge_paths) /\ o.remove_deselected
            THEN EdgesLoop(o, edges, base_paths, i + 1, selected_edges)
            ELSE LET e == preprocess_element(o, edge, edge_paths)
                 IN EdgesLoop(o, [edges EXCEPT ![i] = e], base_paths, i + 1,
                              Append(selected_edges, e))

\* GraphOverlay.preprocess_edges(edges, paths)
preprocess_edges(o, edges, base_paths) == EdgesLoop(o, edges, base_paths, 1, <<>>)

\* processed_subgraph.get('nodes', False) or processed_subgraph.get('edges', False)
HasNodesOrEdges(m) == Get(m, "nodes", <<>>) # <<>> \/ Get(m, "edges", <<>>) # <<>>

\* the name preprocess_subgraphs files a subgraph under
StrippedName(key) ==
    IF StartsWith(key, ClusterMarker)
    THEN SubSeq(key, ClusterMarkerLen + 1, Len(key))
    ELSE key

\* subgraph['cluster'] = True for a name with the cluster marker
MarkCluster(key, subgraph) ==
    IF StartsWith(key, ClusterMarker) THEN Update(subgraph, [cluster |-> TRUE])
    ELSE subgraph

RECURSIVE preprocess_model(_, _, _)

\* the loop of preprocess_subgraphs from entry i on
RECURSIVE SubgraphsLoop(_, _, _, _, _)
SubgraphsLoop(o, subgraphs, current_path, i, selected_subgraphs) ==
    IF i > Len(subgraphs) THEN [out |-> selected_subgraphs, inp |-> subgraphs]
    ELSE LET subgraph_name == StrippedName(subgraphs[i].key)
             subgraph      == MarkCluster(subgraphs[i].key, subgraphs[i].value)
             sub_path      == subgraph_path(subgraph_name, current_path)
             sub_paths     == <<sub_path>>
             r             == preprocess_model(o, subgraph, sub_path)
             processed_subgraph == preprocess_element(o, r.out, sub_paths)
             left          == [subgraphs EXCEPT ![i].value = r.inp]
         IN IF ~in_a_selected_path(o.selected_paths, sub_paths)
            THEN IF o.remove_deselected /\ ~HasNodesOrEdges(processed_subgraph)
                 THEN [out |-> DictUpdate(selected_subgraphs,
                                          Get(processed_subgraph, "subgraphs", <<>>)),
                       inp |-> left]
                 ELSE SubgraphsLoop(o, left, current_path, i + 1,
                          DictSet(selected_subgraphs, subgraph_name, processed_subgraph))
            ELSE SubgraphsLoop(o, left, current_path, i + 1,
                     DictSet(selected_subgraphs, subgraph_name,
                             IF ~HasNodesOrEdges(processed_subgraph)
                             THEN Update(processed_subgraph, [visible |-> FALSE])
                             ELSE processed_subgraph))

\* GraphOverlay.preprocess_subgraphs(subgraphs, paths, current_path); `paths`
\* is overwritten before it is read
preprocess_subgraphs(o, subgraphs, base_paths, current_path) ==
    SubgraphsLoop(o, subgraphs, current_path, 1, <<>>)

\* GraphOverlay.preprocess_model(model, current_path)
preprocess_model(o, m, current_path) ==
    LET base_paths == IF current_path # <<>> THEN <<current_path>> ELSE <<>>
        n == preprocess_nodes(o, Get(m, "nodes", <<>>), base_paths)
        e == preprocess_edges(o, Get(m, "edges", <<>>), base_paths)
        s == preprocess_subgraphs(o, Get(m, "subgraphs", <<>>), base_paths, current_path)
        written == [nodes |-> n.inp, edges |-> e.inp, subgraphs |-> s.inp]
    IN [out |-> Update(m, [nodes |-> n.out, edges |-> e.out, subgraphs |-> s.out]),
        inp |-> [k \in DOMAIN m |-> IF k \in DOMAIN written THEN written[k] ELSE m[k]]]

-----------------------------------------------------------------------------
(* The overlay pass: its inputs and its runs *)

MaxOverlaySize == 4     \* nodes, edges and subgraphs of a model, all depths
MaxEdges == 1           \* edges of one (sub)graph
MaxRuns == 2            \* calls of preprocess_model on the same model

Min(a, b) == IF a < b THEN a ELSE b

LevelLetters == <<"a", "b", "c", "d", "e", "f", "g">>
Digits == <<"1", "2", "3", "4", "5", "6", "7">>
NodeLetters == <<"t", "u", "v", "w", "x", "y", "z">>

\* the i-th subgraph of a graph at depth d - 1; every second one is a cluster
SubgraphKey(d, i) ==
    (IF i = 2 THEN ClusterMarker ELSE <<>>) \o <<LevelLetters[d], Digits[i]>>

NodeKey(i) == <<NodeLetters[i]>>

PathA1 == <<"a", "1">>
PathA2 == <<"a", "2">>
PathA1B1 == <<"a", "1", ".", "b", "1">>

\* a node or edge as written: plain, or tagged with an extra path
ElementVariants == { EmptyMap, [paths |-> <<PathA2>>] }

\* an edge between the first two node ids, with the extra keys of variant v
EdgeOf(v) == Update([from |-> NodeKey(1), to |-> NodeKey(2)], v)

NodeDict(v) == [i \in DOMAIN v |-> [key |-> NodeKey(i), value |-> v[i]]]

NameSubgraphs(f, d) == [i \in DOMAIN f |-> [key |-> SubgraphKey(d, i), value |-> f[i]]]

RECURSIVE Forests(_, _, _, _)
RECURSIVE Models(_, _, _, _)

\* the lists of subgraphs of depth d that hold m elements in all; NV and EV
\* are the ways a node and an edge can be written
Forests(m, d, NV, EV) ==
    IF m = 0 THEN {<<>>}
    ELSE UNION { { <<sg>> \o rest : sg \in Models(s - 1, d, NV, EV),
                                    rest \in Forests(m - s, d, NV, EV) } : s \in 1..m }

\* the models of depth d that hold exactly n elements below them
Models(n, d, NV, EV) ==
    UNION { UNION { { [nodes     |-> NodeDict(v),
                       edges     |-> [i \in 1..j |-> EdgeOf(w[i])],
                       subgraphs |-> NameSubgraphs(f, d + 1)] :
                        v \in [1..k -> NV],
                        w \in [1..j -> EV],
                        f \in Forests(n - k - j, d + 1, NV, EV) } :
                    j \in 0..Min(MaxEdges, n - k) } :
            k \in 0..n }

\* the models that hold at most n elements
OverlayInputs(n) ==
    UNION { Models(k, 0, ElementVariants, ElementVariants) : k \in 0..n }

\* GraphOverlay.__init__: the three path lists and the switch
OverlayConfigs ==
    { [selected_paths    |-> sel,
       highlighted_paths |-> marks[1],
       shaded_paths      |-> marks[2],
       remove_deselected |-> rm] :
        sel \in {EmptySelector, <<PathA1>>, <<<<Caret>> \o PathA1>>,
                 <<PathA1B1>>, <<PathA2>>},
        marks \in {<<EmptySelector, EmptySelector>>, <<<<PathA1>>, <<PathA2>>>>},
        rm \in BOOLEAN }

InitOverlay ==
    /\ pc = "idle"
    /\ overlay \in OverlayConfigs
    /\ model \in OverlayInputs(MaxOverlaySize)
    /\ original = model
    /\ processed = <<>>
    /\ styles = Idle /\ type = Idle /\ attributes = Idle /\ classes = Idle
    /\ result = Idle
    /\ paths = Idle /\ selected_paths = Idle /\ matched = Idle
    /\ root = Idle /\ stack = Idle

\* processed_model = self.preprocess_model(model)
PreprocessModel ==
    /\ Len(processed) < MaxRuns
    /\ LET r == preprocess_model(overlay, model, <<>>)
       IN /\ processed' = Append(processed, r.out)
          /\ model' = r.inp
    /\ UNCHANGED <<pc, overlay, original>>
    /\ UNCHANGED <<resolveVars, matchVars, walkVars>>

NextOverlay == PreprocessModel

SpecOverlay == InitOverlay /\ [][NextOverlay]_vars

\* every node, edge and subgraph below m, at any depth, has visible = true
RECURSIVE AllVisible(_)
AllVisible(m) ==
    /\ \A i \in DOMAIN m.nodes : Get(m.nodes[i].value, "visible", FALSE)
    /\ \A i \in DOMAIN m.edges : Get(m.edges[i], "visible", FALSE)
    /\ \A i \in DOMAIN m.subgraphs :
          /\ Get(m.subgraphs[i].value, "visible", FALSE)
          /\ AllVisible(m.subgraphs[i].value)

RECURSIVE VisibleUnlessEmpty(_)
VisibleUnlessEmpty(m) ==
    /\ \A i \in DOMAIN m.nodes : Get(m.nodes[i].value, "visible", FALSE)
    /\ \A i \in DOMAIN m.edges : Get(m.edges[i], "visible", FALSE)
    /\ \A i \in DOMAIN m.subgraphs :
          /\ "visible" \in DOMAIN m.subgraphs[i].value
          /\ m.subgraphs[i].value.visible = HasNodesOrEdges(m.subgraphs[i].value)
          /\ AllVisible([nodes |-> m.subgraphs[i].value.nodes,
                         edges |-> m.subgraphs[i].value.edges,
                         subgraphs |-> <<>>])
          /\ VisibleUnlessEmpty(m.subgraphs[i].value)

\* the elements below m, all depths: <<nodes, edges, subgraphs>>
RECURSIVE CountElements(_)
CountElements(m) ==
    LET F[i \in 0..Len(m.subgraphs)] ==
            IF i = 0 THEN Len(m.nodes) + Len(m.edges) + Len(m.subgraphs)
            ELSE F[i - 1] + CountElements(m.subgraphs[i].value)
    IN F[Len(m.subgraphs)]

InputNotMutated ==
    /\ Len(processed) >= 1 => model = original
    /\ Len(processed) >= 2 => processed[2] = processed[1]

-----------------------------------------------------------------------------
(* The top-level call preprocess_subgraphs(original.subgraphs) of the first *)
(* run, subgraph by subgraph                                                *)

TopName(i) == StrippedName(original.subgraphs[i].key)
TopPath(i) == subgraph_path(TopName(i), <<>>)
TopRun(i) ==
    preprocess_model(overlay,
                     MarkCluster(original.subgraphs[i].key, original.subgraphs[i].value),
                     TopPath(i))
\* the processed subgraph
TopProcessed(i) == preprocess_element(overlay, TopRun(i).out, <<TopPath(i)>>)
TopMatches(i) == in_a_selected_path(overlay.selected_paths, <<TopPath(i)>>)
\* the condition under which a subgraph is collapsed out of the hierarchy
TopCollapses(i) ==
    /\ overlay.remove_deselected
    /\ ~TopMatches(i)
    /\ ~HasNodesOrEdges(TopProcessed(i))

Without(seq, i) == SubSeq(seq, 1, i - 1) \o SubSeq(seq, i + 1, Len(seq))

\* C7: a deselected subgraph left without nodes and edges is, under
\* remove_deselected, replaced in the parent's output by its processed child
\* subgraphs; any other subgraph is kept under its name, with visible = false
\* when it does not match.
CollapsedOrKept ==
    Len(processed) >= 1 =>
        LET out == processed[1].subgraphs
        IN \A i \in DOMAIN original.subgraphs :
              IF TopCollapses(i)
              THEN /\ TopName(i) \notin Keys(out)
                   /\ \A c \in DOMAIN TopProcessed(i).subgraphs :
                         \E k \in DOMAIN out : out[k] = TopProcessed(i).subgraphs[c]
              ELSE /\ TopName(i) \in Keys(out)
                   /\ ~TopMatches(i) => ~Lookup(out, TopName(i)).visible

\* C10: the siblings of a collapsed subgraph, before it or after it, are still
\* processed, and one that would be kept were the collapsed subgraph not in
\* the input is in the parent's output.
SiblingsOfCollapsedKept ==
    Len(processed) = 1 =>
        \A i \in DOMAIN original.subgraphs :
            TopCollapses(i) =>
                \A j \in DOMAIN original.subgraphs \ {i} :
                    /\ model.subgraphs[j].value = TopRun(j).inp
                    /\ TopName(j) \in Keys(preprocess_subgraphs(overlay,
                                Without(original.subgraphs, i), <<>>, <<>>).out)
                         => TopName(j) \in Keys(processed[1].subgraphs)

-----------------------------------------------------------------------------
(* graph.py: GraphContext, the operations on a context.  A context is the   *)
(* record of its fields; `body` is the list of calls made on its backend    *)
(* graph, oldest first.                                                     *)

\* ' '.join(names)
RECURSIVE JoinSpace(_)
JoinSpace(names) ==
    IF names = <<>> THEN <<>>
    ELSE IF Len(names) = 1 THEN names[1]
    ELSE names[1] \o <<" ">> \o JoinSpace(Tail(names))

\* GraphContext.__init__(model, graph_name, styles, prefix, _level)
NewGraphContext(m, graph_name, sheet, prefix, level) ==
    LET st == ContextStyles(sheet)
    IN [name     |-> graph_name,
        styles   |-> st,
        defaults |-> [graph |-> st["graph"], node |-> st["node"], edge |-> st["edge"]],
        attr     |-> OrDefault(build_attributes(st, "graph", m, Get(m, "classes", <<>>)),
                               EmptyMap),
        ranks    |-> <<>>,
        level    |-> level,
        prefix   |-> prefix,
        body     |-> <<>>]

\* GraphContext.new_context(name, model)
new_context(ctx, name, m) ==
    NewGraphContext(m, name, Update(ctx.styles, Get(m, "styles", EmptyMap)),
                    Get(m, "prefix", <<>>), ctx.level + 1)

\* GraphContext.node_id(name)
node_id(ctx, name) ==
    IF ctx.prefix = <<>> THEN name ELSE ctx.prefix \o <<"_">> \o name

\* self._ranks.get(rank, [])
RankNodes(ranks, rank) == IF rank \in Keys(ranks) THEN Lookup(ranks, rank) ELSE <<>>

\* A merge that overwrites the parent's list (mutant of MergeRanks).
MergeRanksOverwriting(ranks, child_ranks) == DictUpdate(ranks, child_ranks)

\* for rank, nodes in ctx.get_ranks().items():
\*     self._ranks[rank] = self._ranks.get(rank, []) + nodes
RECURSIVE MergeRanks(_, _)
MergeRanks(ranks, child_ranks) ==
    IF child_ranks = <<>> THEN ranks
    ELSE MergeRanks(DictSet(ranks, Head(child_ranks).key,
                            RankNodes(ranks, Head(child_ranks).key)
                                \o Head(child_ranks).value),
                    Tail(child_ranks))

\* GraphContext.add_subgraph_from_context(ctx)
add_subgraph_from_context(ctx, child) ==
    [ctx EXCEPT
        !.body  = Append(@, [op |-> "subgraph", name |-> child.name,
                             defaults |-> child.defaults, attr |-> child.attr,
                             body |-> child.body]),
        !.ranks = MergeRanks(@, child.ranks)]

\* GraphContext.add_edge(edge, attributes=None, classes=None)
add_edge(ctx, edge, attributes_, classes_) ==
    LET attrs == build_attributes(ctx.styles, "edge", attributes_,
                                  OrDefault(classes_, <<>>))
    IN [ctx EXCEPT
          !.body = Append(@, [op |-> "edge", from |-> edge["from"], to |-> edge["to"],
                              attrs |-> attrs])]

\* GraphContext.add_node(name, attributes=None, classes=None)
add_node(ctx, name, attributes_, classes_) ==
    LET ranks == IF "rank" \in DOMAIN attributes_
                 THEN DictSet(ctx.ranks, attributes_["rank"],
                              RankNodes(ctx.ranks, attributes_["rank"]) \o <<name>>)
                 ELSE ctx.ranks
        attrs == build_attributes(ctx.styles, "node", attributes_,
                                  OrDefault(classes_, <<>>))
    IN [ctx EXCEPT
          !.ranks = ranks,
          !.body  = Append(@, [op |-> "node", id |-> node_id(ctx, name), attrs |-> attrs])]

\* GraphContext.add_rank(rank_name, rank_type), the rank having nodes;
\* ' '.join(None) raises when it has none
add_rank(ctx, rank_name, rank_type) ==
    [ctx EXCEPT
        !.body = Append(@, [op |-> "rank", rank_type |-> rank_type,
                            nodenames |-> JoinSpace(Lookup(ctx.ranks, rank_name))])]

-----------------------------------------------------------------------------
(* graph.py: main and walk_model.  A frame of the stack is one call of      *)
(* walk_model(ctx, model) with the number of nodes, subgraphs, edges and    *)
(* ranks its four loops have dealt with.                                    *)

MaxWalkSize == 4        \* nodes, edges and subgraphs of a model, all depths

RankName == "r1"

\* a node as written: untagged, or tagged with a rank (and coloured)
WalkNodeVariants == { EmptyMap, [rank |-> RankName, color |-> "3"] }

\* an edge as written: bare, or with a class and an attribute of its own
WalkEdgeVariants == { EmptyMap, [classes |-> <<"c1">>, penwidth |-> "3"] }

\* the `ranks` of a model: none, or the one rank declared
RankDeclarations == { <<>>, <<[key |-> RankName, value |-> "same"]>> }

\* the first subgraph of a graph sets a prefix for its node ids
SubgraphPrefix(i) == IF i = 1 THEN [prefix |-> <<"p">>] ELSE EmptyMap

\* a subgraph declares the rank when a node of its own is tagged with it
OwnRanks(m) ==
    IF \E i \in DOMAIN m.nodes : "rank" \in DOMAIN m.nodes[i].value
    THEN <<[key |-> RankName, value |-> "same"]>>
    ELSE <<>>

\* the subgraphs of a model with their prefixes and rank declarations
RECURSIVE WalkSubgraphs(_)
WalkSubgraphs(subs) ==
    [i \in DOMAIN subs |->
        [key   |-> subs[i].key,
         value |-> Update(Update(subs[i].value, SubgraphPrefix(i)),
                          [subgraphs |-> WalkSubgraphs(subs[i].value.subgraphs),
                           ranks     |-> OwnRanks(subs[i].value)])]]

\* the models that hold at most n elements; the root declares the rank or not
WalkInputs(n) ==
    { Update(m, [subgraphs |-> WalkSubgraphs(m.subgraphs), ranks |-> rk]) :
        m \in UNION { Models(k, 0, WalkNodeVariants, WalkEdgeVariants) : k \in 0..n },
        rk \in RankDeclarations }

\* the stylesheet file of main: none, or one that styles edges and class c1
WalkStylesheets ==
    { EmptyMap,
      [edge |-> [color |-> "1"], c1 |-> [color |-> "2", shape |-> "2"]] }

Frame(ctx, m) == [ctx |-> ctx, model |-> m, n |-> 0, s |-> 0, e |-> 0, r |-> 0]

FrameNodes(f) == Get(f.model, "nodes", <<>>)
FrameSubgraphs(f) == Get(f.model, "subgraphs", <<>>)
FrameEdges(f) == Get(f.model, "edges", <<>>)
FrameRanks(f) == Get(f.model, "ranks", <<>>)

\* walk_model: the four loops run one after the other
NodesDone(f) == f.n = Len(FrameNodes(f))
SubgraphsDone(f) == NodesDone(f) /\ f.s = Len(FrameSubgraphs(f))
EdgesDone(f) == SubgraphsDone(f) /\ f.e = Len(FrameEdges(f))
RanksDone(f) == EdgesDone(f) /\ f.r = Len(FrameRanks(f))

Top == stack[Len(stack)]
SetTop(f) == [stack EXCEPT ![Len(stack)] = f]

\* main: styles of the stylesheet file, then the model's own; the root context
InitWalk ==
    /\ pc = "walking"
    /\ root \in WalkInputs(MaxWalkSize)
    /\ \E sheet \in WalkStylesheets :
          stack = <<Frame(NewGraphContext(root, <<"G">>,
                                          Update(sheet, Get(root, "styles", EmptyMap)),
                                          <<>>, 0),
                          root)>>
    /\ styles = Idle /\ type = Idle /\ attributes = Idle /\ classes = Idle
    /\ result = Idle
    /\ paths = Idle /\ selected_paths = Idle /\ matched = Idle
    /\ overlay = Idle /\ model = Idle /\ original = Idle /\ processed = Idle

\* add_nodes: ctx.add_node(node_id, attributes)
AddNode ==
    /\ pc = "walking"
    /\ ~NodesDone(Top)
    /\ LET entry == FrameNodes(Top)[Top.n + 1]
       IN stack' = SetTop([Top EXCEPT
                             !.ctx = add_node(@, entry.key, entry.value, <<>>),
                             !.n = @ + 1])
    /\ UNCHANGED <<pc, root>>
    /\ UNCHANGED <<resolveVars, matchVars, overlayVars>>

\* add_subgraphs: subgraph_ctx = ctx.new_context(subgraph_name, model); walk_model(...)
NewContext ==
    /\ pc = "walking"
    /\ NodesDone(Top) /\ ~SubgraphsDone(Top)
    /\ LET entry == FrameSubgraphs(Top)[Top.s + 1]
       IN stack' = Append(stack,
                          Frame(new_context(Top.ctx, entry.key, entry.value), entry.value))
    /\ UNCHANGED <<pc, root>>
    /\ UNCHANGED <<resolveVars, matchVars, overlayVars>>

\* add_subgraphs: the child's walk_model has returned; ctx.add_subgraph_from_context
AddSubgraphFromContext ==
    /\ pc = "walking"
    /\ Len(stack) > 1
    /\ RanksDone(Top)
    /\ LET parent == stack[Len(stack) - 1]
       IN stack' = Append(SubSeq(stack, 1, Len(stack) - 2),
                          [parent EXCEPT
                             !.ctx = add_subgraph_from_context(@, Top.ctx),
                             !.s = @ + 1])
    /\ UNCHANGED <<pc, root>>
    /\ UNCHANGED <<resolveVars, matchVars, overlayVars>>

\* add_edges: ctx.add_edge(edge)
AddEdge ==
    /\ pc = "walking"
    /\ SubgraphsDone(Top) /\ ~EdgesDone(Top)
    /\ stack' = SetTop([Top EXCEPT
                          !.ctx = add_edge(@, FrameEdges(Top)[Top.e + 1], <<>>, <<>>),
                          !.e = @ + 1])
    /\ UNCHANGED <<pc, root>>
    /\ UNCHANGED <<resolveVars, matchVars, overlayVars>>

\* add_ranks: ctx.add_rank(rank_name, rank_type)
AddRank ==
    /\ pc = "walking"
    /\ EdgesDone(Top) /\ ~RanksDone(Top)
    /\ LET entry == FrameRanks(Top)[Top.r + 1]
       IN \/ /\ entry.key \in Keys(Top.ctx.ranks)
             /\ stack' = SetTop([Top EXCEPT
                                   !.ctx = add_rank(@, entry.key, entry.value),
                                   !.r = @ + 1])
             /\ pc' = pc
          \/ /\ entry.key \notin Keys(Top.ctx.ranks)     \* TypeError in ' '.join
             /\ pc' = "crashed"
             /\ stack' = stack
    /\ UNCHANGED root
    /\ UNCHANGED <<resolveVars, matchVars, overlayVars>>

\* main: print(ctx.source())
Source ==
    /\ pc = "walking"
    /\ Len(stack) = 1
    /\ RanksDone(Top)
    /\ pc' = "done"
    /\ UNCHANGED <<root, stack>>
    /\ UNCHANGED <<resolveVars, matchVars, overlayVars>>

NextWalk ==
    \/ AddNode
    \/ NewContext
    \/ AddSubgraphFromContext
    \/ AddEdge
    \/ AddRank
    \/ Source

SpecWalk == InitWalk /\ [][NextWalk]_vars

-----------------------------------------------------------------------------
(* What the walker has emitted, read back from the bodies *)

Frames == {stack[i] : i \in DOMAIN stack}

\* the calls of one kind made on a graph, in order
Calls(body, op) == SelectSeq(body, LAMBDA st : st.op = op)

\* the ids a grouping statement lists: its text split at the spaces
RECURSIVE SplitSpace(_, _)
SplitSpace(text, word) ==
    IF text = <<>> THEN (IF word = <<>> THEN <<>> ELSE <<word>>)
    ELSE IF Head(text) = " "
         THEN (IF word = <<>> THEN <<>> ELSE <<word>>) \o SplitSpace(Tail(text), <<>>)
         ELSE SplitSpace(Tail(text), Append(word, Head(text)))

Range(seq) == {seq[i] : i \in DOMAIN seq}

\* the node ids emitted into a graph and its subgraphs
RECURSIVE EmittedIds(_)
EmittedIds(body) ==
    {body[i].id : i \in {j \in DOMAIN body : body[j].op = "node"}}
    \cup UNION {EmittedIds(body[i].body) : i \in {j \in DOMAIN body : body[j].op = "subgraph"}}

\* the node ids the grouping statements of a graph and its subgraphs list
RECURSIVE ListedIds(_)
ListedIds(body) ==
    UNION {Range(SplitSpace(body[i].nodenames, <<>>)) :
              i \in {j \in DOMAIN body : body[j].op = "rank"}}
    \cup UNION {ListedIds(body[i].body) : i \in {j \in DOMAIN body : body[j].op = "subgraph"}}

\* C3: the backend edge of a model edge joins edge.from and edge.to as given
\* and carries the attributes the resolver yields, with kind edge, for the
\* edge's own classes and direct attributes.
EdgesCarryResolvedAttributes ==
    \A f \in Frames :
        LET emitted == Calls(f.ctx.body, "edge")
        IN \A j \in DOMAIN emitted :
              LET edge == FrameEdges(f)[j]
              IN /\ emitted[j].from = edge["from"]
                 /\ emitted[j].to = edge["to"]
                 /\ emitted[j].attrs = build_attributes(f.ctx.styles, "edge", edge, <<>>)

\* the node ids of the first n nodes of a model that are tagged with a rank,
\* as the context emits them
TaggedIds(f, rank) ==
    LET nodes == SubSeq(FrameNodes(f), 1, f.n)
        tagged == SelectSeq(nodes, LAMBDA nd : Get(nd.value, "rank", "") = rank)
    IN [i \in DOMAIN tagged |->
           IF f.ctx.prefix = <<>> THEN tagged[i].key
           ELSE f.ctx.prefix \o <<"_">> \o tagged[i].key]

\* C4: a node is emitted as prefix_id (as id without a prefix), the id put in
\* the rank's accumulator is that same id, and so every id a grouping
\* statement lists is the id of an emitted node.
RanksListEmittedIds ==
    \A f \in Frames :
        /\ LET emitted == Calls(f.ctx.body, "node")
           IN \A j \in DOMAIN emitted :
                 emitted[j].id = IF f.ctx.prefix = <<>> THEN FrameNodes(f)[j].key
                                 ELSE f.ctx.prefix \o <<"_">> \o FrameNodes(f)[j].key
        /\ f.s = 0 => RankNodes(f.ctx.ranks, RankName) = TaggedIds(f, RankName)
        /\ ListedIds(f.ctx.body) \subseteq EmittedIds(f.ctx.body)

\* the nodes of a model's whole subtree tagged with a rank: its own, in
\* mapping order, then those of each subgraph, in subgraph order
RECURSIVE ExpectedRank(_, _)
ExpectedRank(m, rank) ==
    LET nodes  == Get(m, "nodes", <<>>)
        tagged == SelectSeq(nodes, LAMBDA nd : Get(nd.value, "rank", "") = rank)
        own    == [i \in DOMAIN tagged |-> tagged[i].key]
        subs   == Get(m, "subgraphs", <<>>)
        F[i \in 0..Len(subs)] ==
            IF i = 0 THEN own ELSE F[i - 1] \o ExpectedRank(subs[i].value, rank)
    IN F[Len(subs)]

\* the grouping statements of a body list the whole subtree, at every depth
RECURSIVE GroupingsComplete(_, _)
GroupingsComplete(body, m) ==
    /\ LET groups == Calls(body, "rank")
       IN \A j \in DOMAIN groups :
             /\ groups[j].rank_type = m.ranks[j].value
             /\ groups[j].nodenames = JoinSpace(ExpectedRank(m, m.ranks[j].key))
    /\ LET subs == Calls(body, "subgraph")
       IN \A j \in DOMAIN subs : GroupingsComplete(subs[j].body, m.subgraphs[j].value)

OpRank(op) == CASE op = "node" -> 1 [] op = "subgraph" -> 2 [] op = "edge" -> 3
                [] op = "rank" -> 4

\* nodes, then subgraphs, then edges, then ranks
RECURSIVE WalkOrdered(_)
WalkOrdered(body) ==
    /\ \A i, j \in DOMAIN body : i < j => OpRank(body[i].op) <= OpRank(body[j].op)
    /\ \A i \in {j \in DOMAIN body : body[j].op = "subgraph"} : WalkOrdered(body[i].body)

\* C9: a model is walked nodes, subgraphs, edges, ranks; when add_rank is
\* called for a rank the model declares, the accumulator holds every node of
\* the model's subtree tagged with it, once each, own nodes first and then
\* each subgraph's list in subgraph order; no node joins after the grouping
\* statement is emitted.
RanksCompleteAndOrdered ==
    \A f \in Frames :
        /\ WalkOrdered(f.ctx.body)
        /\ SubgraphsDone(f) =>
              /\ RankNodes(f.ctx.ranks, RankName) = ExpectedRank(f.model, RankName)
              /\ Keys(f.ctx.ranks) \subseteq {RankName}
        /\ GroupingsComplete(f.ctx.body, f.model)
        /\ LET groups == Calls(f.ctx.body, "rank")
           IN \A j \in DOMAIN groups :
                 groups[j].nodenames =
                     JoinSpace(RankNodes(f.ctx.ranks, FrameRanks(f)[j].key))

RanksCompleteAndOrderedWitness ==
    /\ pc = "done"
    /\ Len(stack) = 1
    /\ \E i \in DOMAIN root.subgraphs :
          /\ ExpectedRank(root.subgraphs[i].value, RankName) # <<>>
          /\ \E j \in DOMAIN root.subgraphs[i].value.subgraphs :
                ExpectedRank(root.subgraphs[i].value.subgraphs[j].value, RankName) # <<>>
          /\ Len(ExpectedRank(root.subgraphs[i].value, RankName)) = 2
    /\ Calls(Top.ctx.body, "rank") # <<>>
    /\ Len(SplitSpace(Calls(Top.ctx.body, "rank")[1].nodenames, <<>>)) = 2

====
